---- MODULE Spec2Model ----
(***************************************************************************)
(* A model of src/app.py: the blog comment service.  The persisted store   *)
(* (data/comments.json), the three request handlers of BlogCommentHandler  *)
(* (do_GET, do_POST, do_OPTIONS), the relative-time formatter and the      *)
(* load/save helpers.                                                      *)
(*                                                                         *)
(* Python strings are sequences of one-character strings, so that strip()  *)
(* and the [:n] slices are computed rather than assumed.  A JSON value is  *)
(* a record [t, s, n]: t is the Python type name json.loads gives it       *)
(* ("str", "int", "NoneType"), or "absent" for a key the object lacks.     *)
(***************************************************************************)
EXTENDS Integers, Sequences, FiniteSets, TLC

VARIABLES
    file,       \* data/comments.json: [exists, valid, doc]
    clock,      \* datetime.now(), in whole seconds
    req,        \* the request the single-threaded server handled last
    resp,       \* the response it was answered with
    exc,        \* the exception do_POST raised while handling req, if any
    accepted,   \* history: the comments of the POSTs answered 201, in order
    pc,         \* concurrent dispatch: where each handler thread stands
    hreq,       \* concurrent dispatch: the request each thread is handling
    hcomment,   \* concurrent dispatch: each thread's local `comment`
    hcomments,  \* concurrent dispatch: each thread's local `comments`
    hresp,      \* concurrent dispatch: the response each thread has sent
    elapsed,    \* formatter runs: seconds between the timestamp and now
    shown       \* formatter runs: what format_time_ago returned

vars == <<file, clock, req, resp, exc, accepted,
          pc, hreq, hcomment, hcomments, hresp, elapsed, shown>>

seqVars  == <<req, resp, exc, accepted>>
concVars == <<pc, hreq, hcomment, hcomments, hresp>>
fmtVars  == <<elapsed, shown>>

(***************************************************************************)
(* Bounds of the model.                                                    *)
(***************************************************************************)
MaxComments == 2      \* comments in the store, sequential runs
MaxValidated == 1     \* comments in the store, validation runs
MaxClock == 60        \* how far the clock advances, sequential runs
MaxWindow == 4        \* seconds examined on each side of a bucket boundary
MaxMultiple == 3      \* multiples of each time unit examined

(***************************************************************************)
(* Program constants.                                                      *)
(***************************************************************************)
AuthorMax == 100
EmailMax == 100
WebsiteMax == 200
TextMax == 5000
PostIdMax == 100
Minute == 60
Hour == 3600
Day == 86400
Week == 604800

(***************************************************************************)
(* Strings.                                                                *)
(***************************************************************************)
Whitespace == {" ", "\t"}

Rep(c, n) == [i \in 1..n |-> c]

\* str.strip(): the string without its leading and trailing whitespace
strip(s) ==
    LET first == CHOOSE i \in 1..(Len(s) + 1) :
                    /\ i = Len(s) + 1 \/ s[i] \notin Whitespace
                    /\ \A j \in 1..(i - 1) : s[j] \in Whitespace
        last == CHOOSE i \in 0..Len(s) :
                    /\ i = 0 \/ s[i] \notin Whitespace
                    /\ \A j \in (i + 1)..Len(s) : s[j] \in Whitespace
    IN  IF first > last THEN <<>> ELSE SubSeq(s, first, last)

\* s[:n + 1], a slice one character too long
SliceOffByOne(s, n) == IF Len(s) <= n + 1 THEN s ELSE SubSeq(s, 1, n + 1)
\* s[:n]
Slice(s, n) == IF Len(s) <= n THEN s ELSE SubSeq(s, 1, n)

(***************************************************************************)
(* JSON values as json.loads returns them.                                 *)
(***************************************************************************)
Absent == [t |-> "absent", s |-> <<>>, n |-> 0]
JNull == [t |-> "NoneType", s |-> <<>>, n |-> 0]
JStr(s) == [t |-> "str", s |-> s, n |-> 0]
JInt(n) == [t |-> "int", s |-> <<>>, n |-> n]

\* Python truthiness: bool(v)
Truthy(v) ==
    CASE v.t = "str" -> v.s # <<>>
      [] v.t = "int" -> v.n # 0
      [] OTHER -> FALSE

\* dict.get(key): None for a missing key
DictGet(v) == IF v.t = "absent" THEN JNull ELSE v

\* dict.get(key, ''): the default only for a missing key, not for null
DictGetDefault(v) == IF v.t = "absent" THEN JStr(<<>>) ELSE v

(***************************************************************************)
(* Exceptions.                                                             *)
(***************************************************************************)
NoExc == [type |-> "none", msg |-> ""]

\* str(e) of the AttributeError Python raises for a missing attribute
AttributeError(ty, attr) ==
    [type |-> "AttributeError",
     msg |-> "'" \o ty \o "' object has no attribute '" \o attr \o "'"]

JSONDecodeError == [type |-> "JSONDecodeError", msg |-> "Expecting value"]
ValueError == [type |-> "ValueError", msg |-> "invalid literal for int()"]
UnicodeDecodeError == [type |-> "UnicodeDecodeError", msg |-> "invalid start byte"]

(***************************************************************************)
(* Timestamps: datetime.isoformat() and datetime.fromisoformat().          *)
(***************************************************************************)
isoformat(t) == [date |-> t \div Day, time |-> t % Day]
fromisoformat(iso) == iso.date * Day + iso.time

\* 's' if n >= 1 else '', the plural given to one as well
PluralFromOne(n) == IF n >= 1 THEN "s" ELSE ""
\* 's' if n > 1 else ''
Plural(n) == IF n > 1 THEN "s" ELSE ""

\* format_time_ago(timestamp), with `now` the value of datetime.now()
format_time_ago(timestamp, now) ==
    LET seconds == now - fromisoformat(timestamp)
    IN  IF seconds < Minute THEN "just now"
        ELSE IF seconds < Hour THEN
            LET mins == seconds \div Minute
            IN  ToString(mins) \o " minute" \o Plural(mins) \o " ago"
        ELSE IF seconds < Day THEN
            LET hours == seconds \div Hour
            IN  ToString(hours) \o " hour" \o Plural(hours) \o " ago"
        ELSE IF seconds < Week THEN
            LET days == seconds \div Day
            IN  ToString(days) \o " day" \o Plural(days) \o " ago"
        ELSE
            LET weeks == seconds \div Week
            IN  ToString(weeks) \o " week" \o Plural(weeks) \o " ago"

(***************************************************************************)
(* Comments and the store.                                                 *)
(***************************************************************************)
\* the dict literal of do_POST; data has passed the presence check
NewComment(data, id, now) ==
    [id |-> id,
     author |-> Slice(strip(DictGetDefault(data.author).s), AuthorMax),
     email |-> Slice(strip(DictGetDefault(data.email).s), EmailMax),
     website |-> IF Truthy(DictGet(data.website))
                 THEN JStr(Slice(strip(DictGetDefault(data.website).s), WebsiteMax))
                 ELSE JNull,
     text |-> Slice(strip(DictGetDefault(data.text).s), TextMax),
     timestamp |-> isoformat(now),
     post_id |-> Slice(strip(DictGetDefault(data.post_id).s), PostIdMax),
     parent_id |-> DictGet(data.parent_id),
     approved |-> TRUE]

\* comment['time_formatted'] = tf
WithTime(c, tf) == [time_formatted |-> tf] @@ c

\* the comment as it is without the computed field
StripTime(c) == [k \in DOMAIN c \ {"time_formatted"} |-> c[k]]

StripTimes(cs) == [i \in 1..Len(cs) |-> StripTime(cs[i])]

EmptyDict == [k \in {} |-> <<>>]

NoFile == [exists |-> FALSE, valid |-> TRUE, doc |-> EmptyDict]

\* open(COMMENTS_FILE, 'w'): the file exists and is empty until json.dump writes
Truncated == [exists |-> TRUE, valid |-> FALSE, doc |-> EmptyDict]

\* json.load raises on a file that holds no complete document
LoadExc(f) == IF f.exists /\ ~f.valid THEN JSONDecodeError ELSE NoExc

load_comments(f) == IF f.exists THEN f.doc ELSE EmptyDict

save_comments(comments) == [exists |-> TRUE, valid |-> TRUE, doc |-> comments]

\* comments.get(post_id, [])
StoreGet(comments, k) == IF k \in DOMAIN comments THEN comments[k] ELSE <<>>

\* if post_id not in comments: comments[post_id] = []; comments[post_id].append(comment)
\* comments[post_id].insert(0, comment)
StorePrepend(comments, k, c) ==
    [x \in DOMAIN comments \cup {k} |->
        IF x = k THEN <<c>> \o StoreGet(comments, k) ELSE comments[x]]
\* comments[post_id] = [comment]
StoreOverwrite(comments, k, c) ==
    [x \in DOMAIN comments \cup {k} |-> IF x = k THEN <<c>> ELSE comments[x]]
StoreAppend(comments, k, c) ==
    [x \in DOMAIN comments \cup {k} |->
        IF x = k THEN Append(StoreGet(comments, k), c) ELSE comments[x]]

\* post_id = data['post_id'], the key as submitted
StoreKeyRaw(data, comment) == data.post_id.s
\* post_id = comment['post_id']
StoreKey(data, comment) == comment.post_id

\* the comment object as save_comments writes it: line 121 runs before line 124
\* line 124 moved before line 121: time_formatted is saved too
PersistedWithTime(comment) == WithTime(comment, "just now")
PersistedComment(comment) == comment

Total(comments) ==
    LET RECURSIVE Sum(_)
        Sum(K) == IF K = {} THEN 0
                  ELSE LET k == CHOOSE x \in K : TRUE
                       IN  Len(comments[k]) + Sum(K \ {k})
    IN  Sum(DOMAIN comments)

(***************************************************************************)
(* Requests and responses.                                                 *)
(***************************************************************************)
ApiPath == "/api/comments"

\* a request body: kind is "json" (json.loads succeeds), "text" (it raises
\* JSONDecodeError) or "invalid_utf8" (decode raises); top is the Python type
\* of the parsed value; the six fields are those of a parsed object
Body(kind, top, author, email, website, text, post_id, parent_id) ==
    [kind |-> kind, top |-> top, author |-> author, email |-> email,
     website |-> website, text |-> text, post_id |-> post_id,
     parent_id |-> parent_id]

Obj(author, email, website, text, post_id, parent_id) ==
    Body("json", "dict", author, email, website, text, post_id, parent_id)

NonObj(kind, top) == Body(kind, top, Absent, Absent, Absent, Absent, Absent, Absent)

EmptyBody == NonObj("text", "none")

\* clen is the Content-Length header: "exact", "absent" or "invalid" (no integer)
Request(method, path, post, clen, body) ==
    [method |-> method, path |-> path, post |-> post, clen |-> clen, body |-> body]

NoRequest == Request("none", "", Absent, "absent", EmptyBody)

\* nothing is written: the exception leaves the handler
NoResponse ==
    [status |-> 0, kind |-> "none", message |-> "", body |-> <<>>, cors |-> FALSE]

\* SimpleHTTPRequestHandler serves the path as a file
StaticResponse ==
    [status |-> 0, kind |-> "static", message |-> "", body |-> <<>>, cors |-> FALSE]

send_error(code, message) ==
    [status |-> code, kind |-> "error", message |-> message, body |-> <<>>,
     cors |-> FALSE]

\* send_response(code), the two headers, and json.dumps of the body
JsonResponse(code, kind, body) ==
    [status |-> code, kind |-> kind, message |-> "", body |-> body, cors |-> TRUE]

OptionsResponse ==
    [status |-> 200, kind |-> "empty", message |-> "", body |-> <<>>, cors |-> TRUE]

(***************************************************************************)
(* do_POST, step by step.                                                  *)
(***************************************************************************)
\* self.rfile.read(content_length): nothing is read without the header
ReadBody(r) == IF r.clen = "absent" THEN EmptyBody ELSE r.body

\* lines 89-90, before the try block
ReadExc(r) ==
    IF r.clen = "invalid" THEN ValueError
    ELSE IF ReadBody(r).kind = "invalid_utf8" THEN UnicodeDecodeError
    ELSE NoExc

\* json.loads(body), then the first data.get
ParseExc(body) ==
    IF body.kind # "json" THEN JSONDecodeError
    ELSE IF body.top # "dict" THEN AttributeError(body.top, "get")
    ELSE NoExc

\* the same test with `and` for `or`
MissingRequiredAll(data) ==
    ~Truthy(DictGet(data.author)) /\ ~Truthy(DictGet(data.text))
        /\ ~Truthy(DictGet(data.post_id))
\* not data.get('author') or not data.get('text') or not data.get('post_id')
MissingRequired(data) ==
    ~Truthy(DictGet(data.author)) \/ ~Truthy(DictGet(data.text))
        \/ ~Truthy(DictGet(data.post_id))

\* the first .strip() of the dict literal that is called on a non-string
ConstructExc(data) ==
    LET bad(v) == DictGetDefault(v).t # "str"
        err(v) == AttributeError(DictGetDefault(v).t, "strip")
    IN  IF bad(data.author) THEN err(data.author)
        ELSE IF bad(data.email) THEN err(data.email)
        ELSE IF Truthy(DictGet(data.website)) /\ bad(data.website)
            THEN err(data.website)
        ELSE IF bad(data.text) THEN err(data.text)
        ELSE IF bad(data.post_id) THEN err(data.post_id)
        ELSE NoExc

\* the two except clauses
HandleExc(e) ==
    IF e.type = "JSONDecodeError" THEN send_error(400, "Invalid JSON")
    ELSE send_error(500, e.msg)

\* what the handler leaves behind: the response, the file, the exception
\* raised and the comment created (none, or one)
Outcome(r, f, e, created) == [resp |-> r, file |-> f, exc |-> e, created |-> created]

\* do_POST as one step of the single-threaded server
PostOutcome(r, f, id, now) ==
    LET data == ReadBody(r)
    IN  IF r.path # ApiPath
            THEN Outcome(NoResponse, f, AttributeError("super", "do_POST"), <<>>)
        ELSE IF ReadExc(r) # NoExc
            THEN Outcome(NoResponse, f, ReadExc(r), <<>>)
        ELSE IF ParseExc(data) # NoExc
            THEN Outcome(HandleExc(ParseExc(data)), f, ParseExc(data), <<>>)
        ELSE IF MissingRequired(data)
            THEN Outcome(send_error(400, "Missing required fields"), f, NoExc, <<>>)
        ELSE IF ConstructExc(data) # NoExc
            THEN Outcome(HandleExc(ConstructExc(data)), f, ConstructExc(data), <<>>)
        ELSE IF LoadExc(f) # NoExc
            THEN Outcome(HandleExc(LoadExc(f)), f, LoadExc(f), <<>>)
        ELSE
            LET comment == NewComment(data, id, now)
                comments == StoreAppend(load_comments(f), StoreKey(data, comment),
                                        PersistedComment(comment))
            IN  Outcome(JsonResponse(201, "object", <<WithTime(comment, "just now")>>),
                        save_comments(comments), NoExc, <<comment>>)

\* whether lines 86-111 reach the store: no exception, no missing field
ReachesStore(r) ==
    /\ r.path = ApiPath
    /\ ReadExc(r) = NoExc
    /\ ParseExc(ReadBody(r)) = NoExc
    /\ ~MissingRequired(ReadBody(r))
    /\ ConstructExc(ReadBody(r)) = NoExc

(***************************************************************************)
(* do_GET.                                                                 *)
(***************************************************************************)
\* parse_qs(query).get('post', [''])[0]: a blank value counts as missing
QueryPost(r) == IF r.post.t = "str" THEN r.post.s ELSE <<>>

IsCommentsGet(r) == r.path = ApiPath /\ QueryPost(r) # <<>>

\* the loop that sets comment['time_formatted']
Annotate(post_comments, now) ==
    [i \in 1..Len(post_comments) |->
        WithTime(post_comments[i],
                 format_time_ago(post_comments[i].timestamp, now))]

GetResponse(r, f, now) ==
    IF IsCommentsGet(r) /\ LoadExc(f) # NoExc THEN NoResponse
    ELSE IF IsCommentsGet(r)
    THEN JsonResponse(200, "array",
                      Annotate(StoreGet(load_comments(f), QueryPost(r)), now))
    ELSE StaticResponse

(***************************************************************************)
(* The requests the clients of the model send.                             *)
(***************************************************************************)
\* str(uuid.uuid4())[:8]: any of these, the same one twice included
Ids == {"3f2a9c1e", "b7d04e55"}

BaseBody == Obj(JStr(<<"a">>), Absent, Absent, JStr(<<"t">>), JStr(<<"p">>), Absent)

AuthorVals == {Absent, JNull, JStr(<<>>), JStr(<<" ">>), JStr(<<" ", "a", "\t">>),
               JInt(0), JInt(5)}
EmailVals == {JNull, JStr(<<" ", "e">>), JInt(5)}
WebsiteVals == {JNull, JStr(<<>>), JStr(<<"w", " ">>), JInt(0), JInt(5)}
TextVals == {Absent, JStr(<<>>), JStr(<<"\t">>), JInt(5)}
PostIdVals == {Absent, JStr(<<>>), JStr(<<" ">>), JStr(<<" ", "p">>), JStr(<<"q">>),
               JInt(5)}
ParentIdVals == {JStr(<<"3", "f">>)}

\* the base body with one field replaced, and some with two
Bodies ==
    {BaseBody}
    \cup {[BaseBody EXCEPT !.author = v] : v \in AuthorVals}
    \cup {[BaseBody EXCEPT !.email = v] : v \in EmailVals}
    \cup {[BaseBody EXCEPT !.website = v] : v \in WebsiteVals}
    \cup {[BaseBody EXCEPT !.text = v] : v \in TextVals}
    \cup {[BaseBody EXCEPT !.post_id = v] : v \in PostIdVals}
    \cup {[BaseBody EXCEPT !.parent_id = v] : v \in ParentIdVals}
    \cup {[BaseBody EXCEPT !.author = JInt(5), !.text = Absent],
          [BaseBody EXCEPT !.email = JNull, !.post_id = JStr(<<>>)],
          Obj(Absent, Absent, Absent, Absent, Absent, Absent)}
    \cup {NonObj("json", "list"), NonObj("json", "NoneType"), NonObj("json", "int"),
          NonObj("json", "str"), NonObj("text", "none"),
          NonObj("invalid_utf8", "none")}

\* bodies that are accepted, and differ in what is stored, and two that are not
StoreBodies ==
    {BaseBody,
     [BaseBody EXCEPT !.author = JStr(<<" ", "a", "\t">>)],
     [BaseBody EXCEPT !.author = JStr(<<" ">>)],
     [BaseBody EXCEPT !.text = JStr(<<"\t">>)],
     [BaseBody EXCEPT !.post_id = JStr(<<" ">>)],
     [BaseBody EXCEPT !.post_id = JStr(<<" ", "p">>)],
     [BaseBody EXCEPT !.post_id = JStr(<<"q">>)],
     Obj(JStr(<<"a">>), JStr(<<" ", "e">>), JStr(<<"w", " ">>), JStr(<<"t">>),
         JStr(<<"p">>), JStr(<<"3", "f">>)),
     [BaseBody EXCEPT !.author = JStr(<<>>)],
     NonObj("json", "list")}

StoreRequests == {Request("POST", ApiPath, Absent, "exact", b) : b \in StoreBodies}

PostRequests ==
    {Request("POST", ApiPath, Absent, "exact", b) : b \in Bodies}
    \cup {Request("POST", ApiPath, Absent, "invalid", BaseBody),
          Request("POST", ApiPath, Absent, "absent", BaseBody),
          Request("POST", "/index.html", Absent, "exact", BaseBody)}

GetRequests ==
    {Request("GET", ApiPath, v, "absent", EmptyBody) :
        v \in {JStr(<<>>), JStr(<<" ">>), JStr(<<"p">>), JStr(<<" ", "p">>),
               JStr(<<"q">>)}}
    \cup {Request("GET", "/index.html", Absent, "absent", EmptyBody)}

OptionsRequests == {Request("OPTIONS", ApiPath, Absent, "absent", EmptyBody)}

\* seconds the clock may advance between two requests
TickSteps == {60}

(***************************************************************************)
(* The single-threaded server: HTTPServer handles one request at a time.   *)
(***************************************************************************)
Init ==
    /\ file = NoFile
    /\ clock = 0
    /\ req = NoRequest
    /\ resp = NoResponse
    /\ exc = NoExc
    /\ accepted = <<>>
    /\ pc = <<>>
    /\ hreq = <<>>
    /\ hcomment = <<>>
    /\ hcomments = <<>>
    /\ hresp = <<>>
    /\ elapsed = 0
    /\ shown = ""

do_GET(r) ==
    /\ req' = r
    /\ resp' = GetResponse(r, file, clock)
    /\ exc' = NoExc
    /\ UNCHANGED <<file, clock, accepted, concVars, fmtVars>>

do_POST(r, id) ==
    LET o == PostOutcome(r, file, id, clock)
    IN  /\ req' = r
        /\ resp' = o.resp
        /\ exc' = o.exc
        /\ file' = o.file
        /\ accepted' = accepted \o o.created
        /\ UNCHANGED <<clock, concVars, fmtVars>>

do_OPTIONS(r) ==
    /\ req' = r
    /\ resp' = OptionsResponse
    /\ exc' = NoExc
    /\ UNCHANGED <<file, clock, accepted, concVars, fmtVars>>

Tick(d) ==
    /\ clock + d <= MaxClock
    /\ clock' = clock + d
    /\ UNCHANGED <<file, seqVars, concVars, fmtVars>>

Get == \E r \in GetRequests : do_GET(r)

Post ==
    \E r \in StoreRequests, id \in Ids :
        /\ ReachesStore(r) => Total(load_comments(file)) < MaxComments
        /\ do_POST(r, id)

Options == \E r \in OptionsRequests : do_OPTIONS(r)

Advance == \E d \in TickSteps : Tick(d)

Next == Get \/ Post \/ Options \/ Advance

Spec == Init /\ [][Next]_vars

(***************************************************************************)
(* Validation runs: every kind of request body, against a small store.     *)
(***************************************************************************)
ValidatedPost ==
    \E r \in PostRequests, id \in Ids :
        /\ ReachesStore(r) => Total(load_comments(file)) < MaxValidated
        /\ do_POST(r, id)

SpecValidate == Init /\ [][ValidatedPost]_vars

(***************************************************************************)
(* Properties of the single-threaded server.                               *)
(***************************************************************************)
Stored == load_comments(file)

AllStored == UNION {{Stored[k][i] : i \in 1..Len(Stored[k])} : k \in DOMAIN Stored}

IsApiPost(r) == r.method = "POST" /\ r.path = ApiPath

\* the submitted value of a string field after strip() and [:n]
Normal(v, n) ==
    LET t == strip(v.s)
    IN  [i \in 1..(IF Len(t) < n THEN Len(t) ELSE n) |-> t[i]]

\* the comment carries the submitted values, trimmed and truncated
PreservesSubmitted(data, c) ==
    /\ c.author = Normal(data.author, AuthorMax)
    /\ c.email = Normal(data.email, EmailMax)
    /\ c.website.s = Normal(data.website, WebsiteMax)
    /\ c.text = Normal(data.text, TextMax)
    /\ c.post_id = Normal(data.post_id, PostIdMax)
    /\ c.parent_id = DictGet(data.parent_id)

\* C1: a comment whose POST with post_id P was answered 201 is in the list the
\* next request, GET /api/comments?post=P, returns, with the submitted fields
\* trimmed and truncated.
RoundTrip ==
    [][(/\ IsApiPost(req) /\ resp.status = 201
        /\ req'.method = "GET" /\ req'.path = ApiPath
        /\ req'.post = req.body.post_id)
       => \E i \in 1..Len(resp'.body) :
            /\ StripTime(resp'.body[i]) = StripTime(resp.body[1])
            /\ PreservesSubmitted(req.body, resp'.body[i])]_vars

Falsy(v) == v \in {Absent, JNull, JStr(<<>>), JInt(0)}

LacksRequired(data) == Falsy(data.author) \/ Falsy(data.text) \/ Falsy(data.post_id)

ParsesAsObject(r) ==
    IsApiPost(r) /\ r.clen = "exact" /\ r.body.kind = "json" /\ r.body.top = "dict"

\* C2: a POST whose body is a JSON object lacking author, text or post_id (absent
\* or falsy) is answered 400 "Missing required fields" and leaves the file as
\* it was.
MissingFieldsRejected ==
    [][(ParsesAsObject(req') /\ LacksRequired(req'.body))
       => /\ resp'.status = 400
          /\ resp'.message = "Missing required fields"
          /\ file' = file]_vars

MissingFieldsWitness ==
    /\ ParsesAsObject(req)
    /\ req.body.author = JInt(5) /\ req.body.text = Absent
    /\ resp.status = 400
    /\ Total(Stored) = 1

\* C3: every exception a POST /api/comments raises, a JSON decode failure
\* excepted, is answered 500 with the exception's message.
ExceptionsAnswered500 ==
    (IsApiPost(req) /\ exc.type \notin {"none", "JSONDecodeError"})
        => (resp.status = 500 /\ resp.message = exc.msg)

\* C5: every comment in the list stored under key K has post_id K.
PostIdIsKey ==
    \A k \in DOMAIN Stored : \A i \in 1..Len(Stored[k]) : Stored[k][i].post_id = k

PostIdIsKeyWitness ==
    /\ IsApiPost(req) /\ resp.status = 201
    /\ req.body.post_id = JStr(<<" ", "p">>)
    /\ <<"p">> \in DOMAIN Stored
    /\ Len(Stored[<<"p">>]) = 2

NoTimePersisted(f) ==
    \A k \in DOMAIN f.doc : \A i \in 1..Len(f.doc[k]) :
        "time_formatted" \notin DOMAIN f.doc[k][i]

\* C7: a GET leaves the file as it was, with no time_formatted in it and no key
\* added; the list it returns is the stored list in the stored order with
\* time_formatted added; a second GET for the same post returns the same comments.
GetReadOnly ==
    [][(req'.method = "GET")
       => /\ file' = file
          /\ NoTimePersisted(file')
          /\ IsCommentsGet(req')
                => /\ resp'.status = 200
                   /\ StripTimes(resp'.body) = StoreGet(file.doc, req'.post.s)
                   /\ \A i \in 1..Len(resp'.body) :
                        "time_formatted" \in DOMAIN resp'.body[i]
          /\ (req = req' /\ IsCommentsGet(req))
                => StripTimes(resp'.body) = StripTimes(resp.body)]_vars

GetReadOnlyWitness ==
    /\ req.method = "GET" /\ IsCommentsGet(req)
    /\ Len(resp.body) = 2
    /\ resp.body[1].time_formatted = "1 minute ago"
    /\ resp.body[2].time_formatted = "just now"
    /\ StripTimes(resp.body) = Stored[req.post.s]

\* C9: the list stored under each key K is the sequence of the comments of the
\* accepted POSTs whose stored post_id is K, in the order they were handled, and
\* no other key is stored.
AppendOnlyHistory ==
    /\ DOMAIN Stored = {accepted[i].post_id : i \in 1..Len(accepted)}
    /\ \A k \in DOMAIN Stored :
            Stored[k] = SelectSeq(accepted, LAMBDA c : c.post_id = k)

AppendOnlyWitness ==
    /\ Len(accepted) = 2
    /\ accepted[1] # accepted[2]
    /\ accepted[1].post_id = accepted[2].post_id
    /\ Stored[accepted[1].post_id] = accepted

\* C10: every stored comment has a non-empty author, text and post_id, and no
\* list is stored under the empty key.
StoredFieldsNonEmpty ==
    /\ <<>> \notin DOMAIN Stored
    /\ \A c \in AllStored : c.author # <<>> /\ c.text # <<>> /\ c.post_id # <<>>

(***************************************************************************)
(* Long fields: the first POST to a fresh store, with fields around and    *)
(* beyond their length limits.                                             *)
(***************************************************************************)
Padded(i, n, j) == Rep(" ", i) \o Rep("a", n) \o Rep("\t", j)

LongStrings(limit) ==
    {Padded(i, n, j) : i \in {0, 60}, j \in {0, 1},
                       n \in {limit - 10, limit, limit + 1, limit + 50}}

LongBodies ==
    {[BaseBody EXCEPT !.author = JStr(v)] : v \in LongStrings(AuthorMax)}
    \cup {[BaseBody EXCEPT !.email = JStr(v)] : v \in LongStrings(EmailMax)}
    \cup {[BaseBody EXCEPT !.website = JStr(v)] : v \in LongStrings(WebsiteMax)}
    \cup {[BaseBody EXCEPT !.text = JStr(v)] : v \in LongStrings(TextMax)}
    \cup {[BaseBody EXCEPT !.post_id = JStr(v)] : v \in LongStrings(PostIdMax)}

LongPost ==
    /\ ~file.exists
    /\ \E b \in LongBodies, id \in Ids :
            do_POST(Request("POST", ApiPath, Absent, "exact", b), id)

SpecLong == Init /\ [][LongPost]_vars

Created == resp.body[1]

WithinLimits(c) ==
    /\ Len(c.author) <= 100
    /\ Len(c.email) <= 100
    /\ c.website.t = "str" => Len(c.website.s) <= 200
    /\ Len(c.text) <= 5000
    /\ Len(c.post_id) <= 100

\* C6 as stated: a submitted author of 150 characters is stored with exactly
\* 100 characters.
Author150StoredAs100 ==
    (IsApiPost(req) /\ resp.status = 201 /\ Len(req.body.author.s) = 150)
        => Len(Created.author) = 100

\* C6 as amended: the stored author is the submitted author without its
\* surrounding whitespace, cut to its first 100 characters, so it has exactly
\* 100 characters when the trimmed author has 100 or more (150 among them) and
\* the trimmed length otherwise; the stored author, email, website, text and
\* post_id never exceed 100, 100, 200, 5000 and 100 characters.
TruncationAfterTrim ==
    /\ \A c \in AllStored : WithinLimits(c)
    /\ (IsApiPost(req) /\ resp.status = 201)
        => LET t == strip(req.body.author.s)
           IN  /\ Len(t) >= 100 => Len(Created.author) = 100
               /\ Len(t) < 100 => Len(Created.author) = Len(t)
               /\ \A i \in 1..Len(Created.author) : Created.author[i] = t[i]
               /\ StripTime(Created) \in AllStored
               /\ WithinLimits(Created)

TruncationWitness ==
    /\ IsApiPost(req) /\ resp.status = 201
    /\ Len(req.body.author.s) = 150
    /\ Len(strip(req.body.author.s)) = 150
    /\ Len(Created.author) = 100
    /\ \E c \in AllStored : Len(c.author) = 100

(***************************************************************************)
(* The formatter alone: comments created at several times, read after      *)
(* elapsed times around every bucket boundary.                             *)
(***************************************************************************)
ElapsedTimes ==
    {k * u + d : k \in 0..MaxMultiple, u \in {Minute, Hour, Day, Week},
                 d \in (0 - MaxWindow)..MaxWindow}
    \cup {90}

CreatedTimes == {0, Day - 1, 1000000}

Format ==
    \E t0 \in CreatedTimes, s \in ElapsedTimes :
        /\ clock' = t0 + s
        /\ elapsed' = s
        /\ shown' = format_time_ago(isoformat(t0), t0 + s)
        /\ UNCHANGED <<file, seqVars, concVars>>

SpecFormat == Init /\ [][Format]_vars

Phrase(n, noun) ==
    ToString(n) \o " " \o noun \o (IF n = 1 THEN "" ELSE "s") \o " ago"

\* C4: the string for s elapsed seconds is "just now" below 60, then n minutes,
\* hours, days or weeks with n the whole quotient, the noun singular exactly
\* when n = 1, and n >= 1 in every bucket.
TimeAgoBuckets ==
    shown # "" =>
        /\ elapsed < 60 => shown = "just now"
        /\ (60 <= elapsed /\ elapsed < 3600)
            => (shown = Phrase(elapsed \div 60, "minute") /\ elapsed \div 60 >= 1)
        /\ (3600 <= elapsed /\ elapsed < 86400)
            => (shown = Phrase(elapsed \div 3600, "hour") /\ elapsed \div 3600 >= 1)
        /\ (86400 <= elapsed /\ elapsed < 604800)
            => (shown = Phrase(elapsed \div 86400, "day") /\ elapsed \div 86400 >= 1)
        /\ elapsed >= 604800
            => (shown = Phrase(elapsed \div 604800, "week")
                /\ elapsed \div 604800 >= 1)
        /\ elapsed = 59 => shown = "just now"
        /\ elapsed \in {60, 90} => shown = "1 minute ago"
        /\ elapsed = 3599 => shown = "59 minutes ago"
        /\ elapsed = 7200 => shown = "2 hours ago"

TimeAgoWitness == elapsed = 90 /\ shown = "1 minute ago" /\ clock = Day + 89

(***************************************************************************)
(* Concurrent dispatch: two handler threads, one request each, run do_POST  *)
(* with their steps interleaved.  A thread loads the file, appends to its  *)
(* own copy, opens the file for writing (which empties it) and writes its  *)
(* copy.  The store they start from is absent or holds one comment that    *)
(* an earlier POST left.                                                   *)
(***************************************************************************)
Threads == {"t1", "t2"}

ConcRequests ==
    {Request("POST", ApiPath, Absent, "exact", b) :
        b \in {BaseBody,
               [BaseBody EXCEPT !.post_id = JStr(<<"q">>)],
               [BaseBody EXCEPT !.author = JStr(<<>>)]}}

InitialFiles ==
    {NoFile}
    \cup {PostOutcome(Request("POST", ApiPath, Absent, "exact", BaseBody),
                      NoFile, id, 0).file : id \in Ids}

InitConc ==
    /\ file \in InitialFiles
    /\ clock = 0
    /\ req = NoRequest
    /\ resp = NoResponse
    /\ exc = NoExc
    /\ accepted = <<>>
    /\ pc = [t \in Threads |-> "idle"]
    /\ hreq = [t \in Threads |-> NoRequest]
    /\ hcomment = [t \in Threads |-> <<>>]
    /\ hcomments = [t \in Threads |-> EmptyDict]
    /\ hresp = [t \in Threads |-> NoResponse]
    /\ elapsed = 0
    /\ shown = ""

\* lines 86-111: read, parse, validate, build the comment
Receive(t, r, id) ==
    /\ pc[t] = "idle"
    /\ hreq' = [hreq EXCEPT ![t] = r]
    /\ hcomments' = [hcomments EXCEPT ![t] = EmptyDict]
    /\ IF ReachesStore(r)
       THEN /\ hcomment' = [hcomment EXCEPT ![t] = <<NewComment(ReadBody(r), id, clock)>>]
            /\ hresp' = [hresp EXCEPT ![t] = NoResponse]
            /\ pc' = [pc EXCEPT ![t] = "load"]
       ELSE /\ hcomment' = [hcomment EXCEPT ![t] = <<>>]
            /\ hresp' = [hresp EXCEPT ![t] = PostOutcome(r, file, id, clock).resp]
            /\ pc' = [pc EXCEPT ![t] = "done"]
    /\ UNCHANGED <<file, clock, seqVars, fmtVars>>

\* line 114: comments = load_comments()
LoadStep(t) ==
    /\ pc[t] = "load"
    /\ IF LoadExc(file) # NoExc
       THEN /\ hresp' = [hresp EXCEPT ![t] = HandleExc(LoadExc(file))]
            /\ pc' = [pc EXCEPT ![t] = "done"]
            /\ hcomments' = hcomments
       ELSE /\ hcomments' = [hcomments EXCEPT ![t] = load_comments(file)]
            /\ pc' = [pc EXCEPT ![t] = "open"]
            /\ hresp' = hresp
    /\ UNCHANGED <<file, clock, hreq, hcomment, seqVars, fmtVars>>

\* lines 115-120 on the thread's own copy, then open(COMMENTS_FILE, 'w')
OpenStep(t) ==
    /\ pc[t] = "open"
    /\ file' = Truncated
    /\ pc' = [pc EXCEPT ![t] = "dump"]
    /\ UNCHANGED <<clock, hreq, hcomment, hcomments, hresp, seqVars, fmtVars>>

\* what the file holds once the thread has written its copy from offset 0:
\* its document, or, when another thread wrote a longer one since this thread
\* opened the file, this document followed by the rest of the other
Written(f, comments) ==
    IF f.valid THEN {save_comments(comments), Truncated}
    ELSE {save_comments(comments)}

\* json.dump(comments, f) and the close of the file
DumpStep(t) ==
    /\ pc[t] = "dump"
    /\ file' \in Written(file,
                          StoreAppend(hcomments[t],
                                      StoreKey(ReadBody(hreq[t]), hcomment[t][1]),
                                      PersistedComment(hcomment[t][1])))
    /\ pc' = [pc EXCEPT ![t] = "respond"]
    /\ UNCHANGED <<clock, hreq, hcomment, hcomments, hresp, seqVars, fmtVars>>

\* lines 124-130
RespondStep(t) ==
    /\ pc[t] = "respond"
    /\ hresp' = [hresp EXCEPT ![t] =
                    JsonResponse(201, "object", <<WithTime(hcomment[t][1], "just now")>>)]
    /\ pc' = [pc EXCEPT ![t] = "done"]
    /\ UNCHANGED <<file, clock, hreq, hcomment, hcomments, seqVars, fmtVars>>

NextConc ==
    \E t \in Threads :
        \/ \E r \in ConcRequests, id \in Ids : Receive(t, r, id)
        \/ LoadStep(t)
        \/ OpenStep(t)
        \/ DumpStep(t)
        \/ RespondStep(t)

SpecConc == InitConc /\ [][NextConc]_vars

BothAnswered201 ==
    \A t \in Threads : pc[t] = "done" /\ hresp[t].status = 201

SameSnapshot == hcomments["t1"] = hcomments["t2"]

\* C8: when two interleaved POST handlers have loaded the same store and both
\* have been answered 201, the file (where it holds a document) holds that
\* store with the comment of one of the two appended, and not both comments.
LostUpdate ==
    (BothAnswered201 /\ SameSnapshot /\ file.valid)
        => /\ Total(file.doc) = Total(hcomments["t1"]) + 1
           /\ \E t \in Threads :
                LET c == hcomment[t][1]
                    S == hcomments[t]
                IN  /\ DOMAIN file.doc = DOMAIN S \cup {c.post_id}
                    /\ file.doc[c.post_id] = StoreGet(S, c.post_id) \o <<c>>
                    /\ \A k \in DOMAIN S \ {c.post_id} : file.doc[k] = S[k]

LostUpdateWitness ==
    /\ BothAnswered201 /\ SameSnapshot /\ file.valid
    /\ Total(hcomments["t1"]) = 1
    /\ hcomment["t1"] # hcomment["t2"]
    /\ hcomment["t1"][1] \notin AllStored
    /\ hcomment["t2"][1] \in AllStored
    /\ \A t \in Threads : hresp[t].kind = "object"

====
